---- MODULE Spec2Model ----
(***************************************************************************)
(* After Midnight: the project tree, the image records, the FITS import    *)
(* and the summary of src/src/ui/main_window.py, and the mapping editor of *)
(* src/src/ui/metadata_config_window.py, as a state machine over the       *)
(* contents of the SQLite store and the state of the two windows.          *)
(* Every handler is one atomic action: the application is single-threaded  *)
(* and a handler runs to completion.                                       *)
(***************************************************************************)
EXTENDS Bags, FiniteSets, Integers, Sequences, TLC

VARIABLES
    projects,           \* table projects: id -> [name, parent_id, is_organization]
    images,             \* table images: a bag of rows
    metadata_config,    \* table metadata_config: sequence of <<fits_keyword, db_name>>
    columns,            \* the columns of table images
    selected,           \* project_tree.selectedItems(): a project id, or None
    source_project_id,  \* self.source_project_id while a move is pending, or None
    last,               \* the outcome of the last operation on the store: what it did, or its error
    config_window       \* the MetadataConfigWindow: whether it is open, its fits_keywords
                        \* and its used_keywords_list of <<fits_keyword, db_name>>

vars == <<projects, images, metadata_config, columns, selected, source_project_id, last,
          config_window>>

----------------------------------------------------------------------------
(* Bounds of the model. *)

MaxId == 3                  \* largest project id the store hands out

Names == {"M31", "M42", "NGC"}   \* project names the user may type

None == 0                   \* NULL parent_id, empty selection, no pending move

Ids == 1..MaxId

----------------------------------------------------------------------------
(* Strings. A text value is a sequence of one-character strings, so that   *)
(* strip, split and slicing are computed and not assumed.                  *)

Digits == {"0", "1", "2", "3", "4", "5", "6", "7", "8", "9"}

DigitVal(c) ==
    CASE c = "0" -> 0 [] c = "1" -> 1 [] c = "2" -> 2 [] c = "3" -> 3
      [] c = "4" -> 4 [] c = "5" -> 5 [] c = "6" -> 6 [] c = "7" -> 7
      [] c = "8" -> 8 [] OTHER -> 9

\* str.lower() on the file extensions and column names of the model
Lower(s) ==
    CASE s = "FITS" -> "fits"
      [] s = "FIT" -> "fit"
      [] s = "Fits" -> "fits"
      [] s = "IMAGETYP" -> "imagetyp"
      [] s = "Gain" -> "gain"
      [] s = "GAIN" -> "gain"
      [] OTHER -> s

RECURSIVE LStrip(_)
LStrip(s) == IF s # <<>> /\ Head(s) = " " THEN LStrip(Tail(s)) ELSE s

RECURSIVE RStrip(_)
RStrip(s) ==
    IF s # <<>> /\ s[Len(s)] = " " THEN RStrip(SubSeq(s, 1, Len(s) - 1)) ELSE s

\* str.strip()
Strip(s) == RStrip(LStrip(s))

\* the positions of "." in s
DotPositions(s) == {i \in 1..Len(s) : s[i] = "."}

Min(S) == CHOOSE x \in S : \A y \in S : x <= y

Max(S) == CHOOSE x \in S : \A y \in S : x >= y

Text(s) == [t |-> "str", v |-> s]

Number(n) == [t |-> "num", v |-> n]

Null == [t |-> "null", v |-> 0]

\* a float with a fraction: n whole units and tenths of a unit; a float
\* without fraction is Number(n)
Float(n, tenths) ==
    IF tenths = 0 THEN Number(n) ELSE [t |-> "num", v |-> n, tenths |-> tenths]

\* the tenths of a number
Tenths(x) == IF "tenths" \in DOMAIN x THEN x.tenths ELSE 0

----------------------------------------------------------------------------
(* The file trees the user can drop or choose. A file is what os.walk and  *)
(* the header reader give for it: its base name, the extension its name    *)
(* ends in, its full path, whether fits.open succeeds, and its header.     *)

\* the keywords of a light frame: the date has more than six digits of
\* fraction
H1 ==
    [k \in {"DATE-LOC", "EXPOSURE", "FILTER", "IMAGETYP", "GAIN"} |->
        CASE k = "DATE-LOC" ->
                \* 2025-09-29T23:10:05.123456789
                Text(<<"2", "0", "2", "5", "-", "0", "9", "-", "2", "9",
                       "T", "2", "3", ":", "1", "0", ":", "0", "5", ".",
                       "1", "2", "3", "4", "5", "6", "7", "8", "9">>)
          [] k = "EXPOSURE" -> Number(30)
          [] k = "FILTER" -> Text(<<"L">>)
          [] k = "IMAGETYP" -> Text(<<"L", "I", "G", "H", "T">>)
          [] OTHER -> Number(100)]

\* a date between blanks, taken after midnight, and an exposure that is no
\* numeral
H2 ==
    [k \in {"DATE-LOC", "EXPOSURE", "FILTER", "RA"} |->
        CASE k = "DATE-LOC" ->
                \* " 2025-09-30T00:45:00 "
                Text(<<" ", "2", "0", "2", "5", "-", "0", "9", "-", "3",
                       "0", "T", "0", "0", ":", "4", "5", ":", "0", "0",
                       " ">>)
          [] k = "EXPOSURE" -> Text(<<"x">>)
          [] k = "FILTER" -> Text(<<"R">>)
          [] OTHER -> Number(10)]

\* taken just before noon on the first day of a month, the exposure a
\* numeral between blanks
H3 ==
    [k \in {"DATE-LOC", "EXPOSURE", "FILTER"} |->
        CASE k = "DATE-LOC" ->
                \* 2025-10-01T11:59:59
                Text(<<"2", "0", "2", "5", "-", "1", "0", "-", "0", "1",
                       "T", "1", "1", ":", "5", "9", ":", "5", "9">>)
          [] k = "EXPOSURE" -> Text(<<" ", "6", "0", " ">>)
          [] OTHER -> Text(<<"L">>)]

\* taken at noon
H4 ==
    [k \in {"DATE-LOC", "EXPOSURE", "FILTER"} |->
        CASE k = "DATE-LOC" ->
                \* 2025-09-30T12:00:00
                Text(<<"2", "0", "2", "5", "-", "0", "9", "-", "3", "0",
                       "T", "1", "2", ":", "0", "0", ":", "0", "0">>)
          [] k = "EXPOSURE" -> Number(30)
          [] OTHER -> Text(<<"L">>)]

\* a header without DATE-LOC
H5 ==
    [k \in {"EXPOSURE", "FILTER"} |->
        CASE k = "EXPOSURE" -> Number(20)
          [] OTHER -> Text(<<"L">>)]

\* a date with points between day, month and year, and an exposure that
\* is no numeral
H6 ==
    [k \in {"DATE-LOC", "EXPOSURE", "FILTER"} |->
        CASE k = "DATE-LOC" ->
                \* 30.09.2025T01:00:00.5
                Text(<<"3", "0", ".", "0", "9", ".", "2", "0", "2", "5",
                       "T", "0", "1", ":", "0", "0", ":", "0", "0", ".",
                       "5">>)
          [] k = "EXPOSURE" -> Text(<<"x">>)
          [] OTHER -> Text(<<"R">>)]

\* a date without a time, on the first day of March of a leap year
H7 ==
    [k \in {"DATE-LOC", "EXPOSURE", "FILTER"} |->
        CASE k = "DATE-LOC" ->
                \* 2024-03-01
                Text(<<"2", "0", "2", "4", "-", "0", "3", "-", "0", "1">>)
          [] k = "EXPOSURE" -> Number(10)
          [] OTHER -> Text(<<"R">>)]

\* taken after midnight on the first day of a year
H8 ==
    [k \in {"DATE-LOC", "EXPOSURE", "FILTER"} |->
        CASE k = "DATE-LOC" ->
                \* 2025-01-01T03:00:00
                Text(<<"2", "0", "2", "5", "-", "0", "1", "-", "0", "1",
                       "T", "0", "3", ":", "0", "0", ":", "0", "0">>)
          [] k = "EXPOSURE" -> Number(5)
          [] OTHER -> Text(<<"R">>)]

\* a header of the night of 2025-09-29, of one exposure and one filter
NightHeader(exposure, filter) ==
    [k \in {"DATE-LOC", "EXPOSURE", "FILTER"} |->
        CASE k = "DATE-LOC" ->
                \* 2025-09-29T23:10:05
                Text(<<"2", "0", "2", "5", "-", "0", "9", "-", "2", "9",
                       "T", "2", "3", ":", "1", "0", ":", "0", "5">>)
          [] k = "EXPOSURE" -> exposure
          [] OTHER -> Text(<<filter>>)]

NoHeader == [k \in {} |-> Null]

File(filename, ext, path, readable, header) ==
    [filename |-> filename, ext |-> ext, path |-> path,
     readable |-> readable, header |-> header]

DirNames == {"d1", "d2", "d3", "d4"}

\* two more trees, of files whose dates and exposures differ
HeaderDirNames == {"d5", "d6"}

\* one more tree, of one night: exposures of a fraction of a second under
\* L and T, a zero and an unreadable exposure under R, no readable exposure
\* under G, more than an hour under H
DurationDirNames == {"d7"}

\* os.walk(dir_path): the files of the tree, in traversal order
Walk(dir) ==
    CASE dir = "d1" ->
            << File("a.fits", "fits", "d1/a.fits", TRUE, H1),
               File("b.fit", "fit", "d1/b.fit", TRUE, H1),
               File("a.fits", "fits", "d1/sub/a.fits", TRUE, H2),
               File("c.FITS", "FITS", "d1/sub/c.FITS", FALSE, NoHeader) >>
      [] dir = "d2" -> << File("a.fits", "fits", "d2/a.fits", TRUE, H2) >>
      [] dir = "d3" -> << File("b.fit", "fit", "d3/b.fit", TRUE, H1) >>
      [] dir = "d5" ->
            << File("e.fits", "fits", "d5/e.fits", TRUE, H3),
               File("f.fits", "fits", "d5/f.fits", TRUE, H4),
               File("g.fits", "fits", "d5/g.fits", TRUE, H5),
               File("i.fits", "fits", "d5/i.fits", TRUE, H7),
               File("j.fits", "fits", "d5/j.fits", TRUE, H8) >>
      [] dir = "d6" ->
            << File("h.fits", "fits", "d6/h.fits", TRUE, H6),
               File("k.fits", "fits", "d6/k.fits", FALSE, NoHeader) >>
      [] dir = "d7" ->
            << File("l.fits", "fits", "d7/l.fits", TRUE,
                    NightHeader(Text(<<"0", ".", "5">>), "L")),
               File("m.fits", "fits", "d7/m.fits", TRUE,
                    NightHeader(Float(0, 7), "L")),
               File("n.fits", "fits", "d7/n.fits", TRUE,
                    NightHeader(Number(0), "R")),
               File("o.fits", "fits", "d7/o.fits", TRUE,
                    NightHeader(Text(<<"x">>), "R")),
               File("p.fits", "fits", "d7/p.fits", TRUE,
                    NightHeader(Text(<<"x">>), "G")),
               File("q.fits", "fits", "d7/q.fits", TRUE,
                    NightHeader(Number(3725), "H")),
               File("r.fits", "fits", "d7/r.fits", TRUE,
                    NightHeader(Float(0, 5), "T")) >>
      [] OTHER -> << File("notes.txt", "txt", "d4/notes.txt", FALSE, NoHeader) >>

----------------------------------------------------------------------------
(* extract_fits_metadata *)

\* header.get(fits_keyword, None)
HeaderGet(header, k) == IF k \in DOMAIN header THEN header[k] ELSE Null

RECURSIVE DigitsValue(_)
DigitsValue(s) ==
    IF s = <<>> THEN 0
    ELSE 10 * DigitsValue(SubSeq(s, 1, Len(s) - 1)) + DigitVal(s[Len(s)])

\* float(value): a number converts to itself, a text converts when, stripped,
\* it is a numeral; any other text raises ValueError. The numerals of the
\* model are made of digits, with at most one digit after a point.
FloatOf(value) ==
    IF value.t = "num" THEN [ok |-> TRUE, v |-> value.v, tenths |-> Tenths(value)]
    ELSE LET s == Strip(value.v)
             n == Len(s)
         IN  IF s # <<>> /\ \A i \in 1..n : s[i] \in Digits
             THEN [ok |-> TRUE, v |-> DigitsValue(s), tenths |-> 0]
             ELSE IF n >= 3 /\ s[n - 1] = "."
                     /\ \A i \in (1..n) \ {n - 1} : s[i] \in Digits
             THEN [ok |-> TRUE, v |-> DigitsValue(SubSeq(s, 1, n - 2)),
                   tenths |-> DigitVal(s[n])]
             ELSE [ok |-> FALSE, v |-> 0, tenths |-> 0]

\* the date_obs branch: strip, then cut the fraction to 6 digits. The result
\* is [ok, v]: a value that is no text has no strip(), and a text with two or
\* more points does not unpack into (date_part, fractional_part); both raise
\* inside the outer try.
DateObsOf(value) ==
    IF value.t # "str" THEN [ok |-> FALSE, v |-> Null]
    ELSE LET s == Strip(value.v)
             dots == DotPositions(s)
         IN  IF dots = {} THEN [ok |-> TRUE, v |-> Text(s)]
             ELSE IF Cardinality(dots) > 1 THEN [ok |-> FALSE, v |-> Null]
             ELSE LET d == Min(dots)
                      date_part == SubSeq(s, 1, d - 1)
                      fractional_part == SubSeq(s, d + 1, Min({Len(s), d + 6}))
                  IN  [ok |-> TRUE, v |-> Text(date_part \o <<".">> \o fractional_part)]

\* metadata[db_name] = value
DictSet(metadata, db_name, value) ==
    [k \in DOMAIN metadata \cup {db_name} |->
        IF k = db_name THEN value ELSE metadata[k]]

\* the loop over the configuration, from entry i on; an exception raised in
\* the loop ends it and the metadata gathered so far is returned
RECURSIVE ExtractLoop(_, _, _, _)
ExtractLoop(config, header, i, metadata) ==
    IF i > Len(config) THEN metadata
    ELSE LET fits_keyword == config[i][1]
             db_name == config[i][2]
             value == HeaderGet(header, fits_keyword)
         IN  IF value.t = "null" THEN ExtractLoop(config, header, i + 1, metadata)
             ELSE IF db_name = "exposure"
             THEN LET f == FloatOf(value) IN
                  ExtractLoop(config, header, i + 1,
                      DictSet(metadata, db_name,
                              IF f.ok THEN Float(f.v, f.tenths) ELSE Null))
             ELSE IF db_name = "date_obs"
             THEN LET d == DateObsOf(value) IN
                  IF d.ok
                  THEN ExtractLoop(config, header, i + 1,
                                   DictSet(metadata, db_name, d.v))
                  ELSE metadata
             ELSE ExtractLoop(config, header, i + 1,
                              DictSet(metadata, db_name, value))

ExtractFitsMetadata(config, file) ==
    IF file.readable THEN ExtractLoop(config, file.header, 1, NoHeader)
    ELSE NoHeader

----------------------------------------------------------------------------
(* The store. *)

\* the rows of a bag
Rows(bag) == BagToSet(bag)

\* DELETE FROM images WHERE project_id IN ids
DeleteImagesOf(imgs, ids) ==
    [r \in {x \in Rows(imgs) : x.project_id \notin ids} |-> imgs[r]]

\* DELETE FROM projects WHERE id IN ids
DeleteProjectsIn(P, ids) == [id \in DOMAIN P \ ids |-> P[id]]

\* the id SQLite gives to an inserted project: one more than the largest
\* id of the table
NewId(P) == IF DOMAIN P = {} THEN 1 ELSE Max(DOMAIN P) + 1

\* a table of projects without constraint on the name
NameNeverTaken(P, name, except) == FALSE

\* the UNIQUE constraint on projects.name that create_project expects
\* (sqlite3.IntegrityError)
NameTaken(P, name, except) ==
    \E id \in DOMAIN P \ {except} : P[id].name = name

\* INSERT INTO projects (name, parent_id, is_organization)
InsertProject(P, name, parent_id, is_organization) ==
    [id \in DOMAIN P \cup {NewId(P)} |->
        IF id \in DOMAIN P THEN P[id]
        ELSE [name |-> name, parent_id |-> parent_id,
              is_organization |-> is_organization]]

\* SELECT p.id FROM projects p INNER JOIN project_tree pt ON p.parent_id = pt.id
ChildrenOf(P, ids) == {id \in DOMAIN P : P[id].parent_id \in ids}

\* WITH RECURSIVE project_tree AS (seed UNION ALL children of project_tree):
\* the ids of the rows produced from the rows of seed. A tree of n projects
\* is exhausted after n rounds; fuel stops the unfolding after that.
RECURSIVE ProjectTreeFrom(_, _, _)
ProjectTreeFrom(P, seed, fuel) ==
    IF seed = {} \/ fuel = 0 THEN {}
    ELSE seed \cup ProjectTreeFrom(P, ChildrenOf(P, seed), fuel - 1)

ProjectTreeOneLevel(P, id) ==
    ({id} \cap DOMAIN P) \cup ChildrenOf(P, {id})

\* project_tree seeded with SELECT id FROM projects WHERE id = ?
ProjectTree(P, id) ==
    ProjectTreeFrom(P, {id} \cap DOMAIN P, Cardinality(DOMAIN P) + 1)

\* project_tree seeded with SELECT id FROM projects WHERE parent_id = ?
SubProjects(P, id) ==
    ProjectTreeFrom(P, ChildrenOf(P, {id}), Cardinality(DOMAIN P) + 1)

HasChildrenNever(P, id) == FALSE

\* has_children = cursor.fetchone()[0] > 0
HasChildren(P, id) == SubProjects(P, id) # {}

IsChildOfDirect(P, parent_id, child_id) ==
    child_id \in DOMAIN P /\ P[child_id].parent_id = parent_id

\* is_child_of(parent_id, child_id)
IsChildOf(P, parent_id, child_id) ==
    IF parent_id = child_id THEN TRUE
    ELSE child_id \in ProjectTree(P, parent_id)

----------------------------------------------------------------------------
(* ensure_columns_exist *)

LowerSet(S) == {Lower(c) : c \in S}

\* SELECT db_name FROM metadata_config, as a set
RequiredColumns(config) == {config[i][2] : i \in 1..Len(config)}

\* ALTER TABLE images ADD COLUMN '{column}' TEXT is no statement when the
\* name holds an apostrophe: sqlite3.OperationalError, whatever the table.
\* Of the names of the model, one holds an apostrophe.
AlterIsNoStatement(column) == column = "o'clock"

\* an ensure_columns_exist that compares the names as they are written
AddedColumnsByCase(cols, config) ==
    {{c \in RequiredColumns(config) : c \notin cols /\ ~AlterIsNoStatement(c)}}

\* The sets of columns the loop can add. existing_columns is read once,
\* before the loop; the loop runs over a set, in no fixed order; SQLite
\* compares column names without case, so of two required names that differ
\* by case only the first one met is added and the ALTER TABLE of the other
\* fails, which is logged and ignored, as is the ALTER TABLE that is no
\* statement.
AddedColumns(cols, config) ==
    LET missing == {c \in RequiredColumns(config) :
                        Lower(c) \notin LowerSet(cols) /\ ~AlterIsNoStatement(c)}
    IN  {S \in SUBSET missing :
            /\ \A c \in missing : \E s \in S : Lower(s) = Lower(c)
            /\ \A s, t \in S : Lower(s) = Lower(t) => s = t}

----------------------------------------------------------------------------
(* import_fits_from_path *)

\* validate_fits_directory
ValidateFitsDirectory(files) ==
    \E i \in 1..Len(files) : Lower(files[i].ext) \in {"fits", "fit"}

\* file.lower().endswith('.fits')
IsWalked(file) == Lower(file.ext) = "fits"

\* SELECT 1 FROM images WHERE filename = ? AND project_id = ?
ImageExists(imgs, filename, project_id) ==
    \E r \in Rows(imgs) : r.filename = filename /\ r.project_id = project_id

\* the row INSERT INTO images stores: the fields whose value is None are NULL,
\* as are the fields that are not named
ImageRow(file, project_id, metadata) ==
    [filename |-> file.filename, path |-> file.path, project_id |-> project_id,
     meta |-> [k \in {x \in DOMAIN metadata : metadata[x].t # "null"} |-> metadata[k]]]

InsertImageAlways(imgs, file, project_id, metadata) ==
    imgs (+) SetToBag({ImageRow(file, project_id, metadata)})

InsertImageReplace(imgs, file, project_id, metadata) ==
    [r \in {x \in Rows(imgs) :
                ~(x.filename = file.filename /\ x.project_id = project_id)}
        |-> imgs[r]] (+) SetToBag({ImageRow(file, project_id, metadata)})

\* the body of the loop for one walked file, after extract_fits_metadata
InsertImage(imgs, file, project_id, metadata) ==
    IF ImageExists(imgs, file.filename, project_id) THEN imgs
    ELSE imgs (+) SetToBag({ImageRow(file, project_id, metadata)})

\* the INSERT names a column the table does not have: sqlite3.OperationalError
InsertFails(cols, metadata) ==
    \E k \in DOMAIN metadata : Lower(k) \notin LowerSet(cols)

\* cursor.rowcount after a SELECT, a PRAGMA or an ALTER TABLE
RowcountOfQuery == -1

\* cursor.rowcount after the INSERT of one row
RowcountOfInsert == 1

\* the walk from file i on, rowcount being cursor.rowcount, which every
\* execute sets anew. ok is FALSE when an INSERT raised: the exception leaves
\* the with block, which rolls the transaction back.
RECURSIVE ImportLoop(_, _, _, _, _, _, _)
ImportLoop(files, i, imgs, project_id, config, cols, rowcount) ==
    IF i > Len(files) THEN [ok |-> TRUE, images |-> imgs, rowcount |-> rowcount]
    ELSE IF ~IsWalked(files[i])
    THEN ImportLoop(files, i + 1, imgs, project_id, config, cols, rowcount)
    ELSE LET metadata == ExtractFitsMetadata(config, files[i]) IN
         IF ~ImageExists(imgs, files[i].filename, project_id)
               /\ InsertFails(cols, metadata)
         THEN [ok |-> FALSE, images |-> imgs, rowcount |-> RowcountOfQuery]
         ELSE ImportLoop(files, i + 1,
                         InsertImage(imgs, files[i], project_id, metadata),
                         project_id, config, cols,
                         IF ImageExists(imgs, files[i].filename, project_id)
                         THEN RowcountOfQuery ELSE RowcountOfInsert)

\* What import_fits_from_path(dir_path, project_id) can leave behind: the
\* images, the columns, the outcome, the number n of rows inserted and the
\* number the closing message reports, cursor.rowcount. ensure_columns_exist
\* ran its PRAGMA and its ALTER TABLEs on the same cursor before the walk.
ImportOutcomes(imgs, cols, config, dir_path, project_id) ==
    LET files == Walk(dir_path) IN
    IF ~ValidateFitsDirectory(files)
    THEN {[images |-> imgs, columns |-> cols, result |-> "NoFits", n |-> 0,
           reported |-> 0]}
    ELSE {LET r == ImportLoop(files, 1, imgs, project_id, config, cols \cup added,
                              RowcountOfQuery)
          IN  IF r.ok
              THEN [images |-> r.images, columns |-> cols \cup added,
                    result |-> "imported",
                    n |-> BagCardinality(r.images) - BagCardinality(imgs),
                    reported |-> r.rowcount]
              ELSE [images |-> imgs, columns |-> cols \cup added,
                    result |-> "Error", n |-> 0, reported |-> 0]
          : added \in AddedColumns(cols, config)}

----------------------------------------------------------------------------
(* The date functions of SQLite that load_project_images calls. A time     *)
(* value is YYYY-MM-DD, alone or followed by blanks or T and HH:MM,        *)
(* HH:MM:SS or HH:MM:SS.SSS; the values of the model name no time zone.    *)
(* Any other text is no time value and the function gives NULL.            *)

IsDigits(s) == \A i \in 1..Len(s) : s[i] \in Digits

DigitChar(n) ==
    CASE n = 0 -> "0" [] n = 1 -> "1" [] n = 2 -> "2" [] n = 3 -> "3"
      [] n = 4 -> "4" [] n = 5 -> "5" [] n = 6 -> "6" [] n = 7 -> "7"
      [] n = 8 -> "8" [] OTHER -> "9"

\* n written with width digits: %04d, %02d
RECURSIVE ZeroPadded(_, _)
ZeroPadded(n, width) ==
    IF width = 0 THEN <<>>
    ELSE Append(ZeroPadded(n \div 10, width - 1), DigitChar(n % 10))

\* the number of days from 1970-01-01 to the day D of month M of year Y of
\* the Gregorian calendar
DaysFromCivil(Y, M, D) ==
    LET y == IF M <= 2 THEN Y - 1 ELSE Y
        era == y \div 400
        yoe == y - era * 400
        mp == IF M > 2 THEN M - 3 ELSE M + 9
        doy == (153 * mp + 2) \div 5 + D - 1
        doe == yoe * 365 + yoe \div 4 - yoe \div 100 + doy
    IN  era * 146097 + doe - 719468

\* the year, month and day of the day z days after 1970-01-01
CivilFromDays(z) ==
    LET zz == z + 719468
        era == zz \div 146097
        doe == zz - era * 146097
        yoe == (doe - doe \div 1460 + doe \div 36524 - doe \div 146096) \div 365
        doy == doe - (365 * yoe + yoe \div 4 - yoe \div 100)
        mp == (5 * doy + 2) \div 153
        D == doy - (153 * mp + 2) \div 5 + 1
        M == IF mp < 10 THEN mp + 3 ELSE mp - 9
        Y == yoe + era * 400 + (IF M <= 2 THEN 1 ELSE 0)
    IN  [Y |-> Y, M |-> M, D |-> D]

NoTime == [ok |-> FALSE, day |-> 0, seconds |-> 0]

\* s without the blanks and the T it begins with
RECURSIVE SkipSeparator(_)
SkipSeparator(s) ==
    IF s # <<>> /\ Head(s) \in {" ", "T"} THEN SkipSeparator(Tail(s)) ELSE s

\* HH:MM, HH:MM:SS or HH:MM:SS.SSS, and nothing but blanks after it: the
\* seconds since midnight
ParseHhMmSs(s) ==
    IF ~(Len(s) >= 5 /\ IsDigits(SubSeq(s, 1, 2)) /\ s[3] = ":"
            /\ IsDigits(SubSeq(s, 4, 5)))
    THEN NoTime
    ELSE LET h == DigitsValue(SubSeq(s, 1, 2))
             m == DigitsValue(SubSeq(s, 4, 5))
             rest == SubSeq(s, 6, Len(s))
             has_seconds == Len(rest) >= 3 /\ rest[1] = ":"
                                /\ IsDigits(SubSeq(rest, 2, 3))
             sec == IF has_seconds THEN DigitsValue(SubSeq(rest, 2, 3)) ELSE 0
             after == IF has_seconds THEN SubSeq(rest, 4, Len(rest)) ELSE rest
             digits == IF Len(after) >= 2 /\ after[1] = "." /\ after[2] \in Digits
                       THEN CHOOSE n \in 1..(Len(after) - 1) :
                                /\ IsDigits(SubSeq(after, 2, n + 1))
                                /\ n + 2 <= Len(after) => after[n + 2] \notin Digits
                       ELSE 0
             tail == IF has_seconds /\ digits > 0
                     THEN SubSeq(after, digits + 2, Len(after)) ELSE after
         IN  IF h <= 24 /\ m <= 59 /\ sec <= 59 /\ Strip(tail) = <<>>
             THEN [ok |-> TRUE, day |-> 0, seconds |-> h * 3600 + m * 60 + sec]
             ELSE NoTime

\* the time value a text names: its day and its seconds since midnight
ParseDateTime(s) ==
    IF ~(Len(s) >= 10 /\ IsDigits(SubSeq(s, 1, 4)) /\ s[5] = "-"
            /\ IsDigits(SubSeq(s, 6, 7)) /\ s[8] = "-"
            /\ IsDigits(SubSeq(s, 9, 10)))
    THEN NoTime
    ELSE LET Y == DigitsValue(SubSeq(s, 1, 4))
             M == DigitsValue(SubSeq(s, 6, 7))
             D == DigitsValue(SubSeq(s, 9, 10))
             rest == SkipSeparator(SubSeq(s, 11, Len(s)))
             time == ParseHhMmSs(rest)
         IN  IF ~(M \in 1..12 /\ D \in 1..31) THEN NoTime
             ELSE IF rest = <<>>
             THEN [ok |-> TRUE, day |-> DaysFromCivil(Y, M, D), seconds |-> 0]
             ELSE IF time.ok
             THEN [ok |-> TRUE, day |-> DaysFromCivil(Y, M, D),
                   seconds |-> time.seconds]
             ELSE NoTime

\* date(value): the day of a time value, as YYYY-MM-DD
FormatDate(day) ==
    LET c == CivilFromDays(day) IN
    Text(ZeroPadded(c.Y, 4) \o <<"-">> \o ZeroPadded(c.M, 2) \o <<"-">>
            \o ZeroPadded(c.D, 2))

DateUnshifted(value, hours) ==
    IF value.t # "str" THEN Null
    ELSE LET t == ParseDateTime(value.v) IN
         IF t.ok THEN FormatDate(t.day) ELSE Null

\* date(value, 'N hours')
Date(value, hours) ==
    IF value.t # "str" THEN Null
    ELSE LET t == ParseDateTime(value.v) IN
         IF t.ok
         THEN FormatDate((t.day * 86400 + t.seconds + hours * 3600) \div 86400)
         ELSE Null

\* strftime('%Y-%m-%d', value)
StrftimeYmd(value) ==
    IF value.t # "str" THEN Null
    ELSE LET t == ParseDateTime(value.v) IN
         IF t.ok THEN FormatDate(t.day) ELSE Null

----------------------------------------------------------------------------
(* load_project_images: the summary of a project, as the lines added to    *)
(* session_list.                                                           *)

\* the column name of row r: NULL when the INSERT did not name it
Column(r, name) == IF name \in DOMAIN r.meta THEN r.meta[name] ELSE Null

\* FROM images WHERE project_id = ?
ImagesOf(imgs, project_id) == {r \in Rows(imgs) : r.project_id = project_id}

\* the code of a character, for the comparison of texts
CharRank(c) ==
    CASE c = " " -> 32 [] c = "-" -> 45 [] c = "." -> 46 [] c = ":" -> 58
      [] c \in Digits -> 48 + DigitVal(c)
      [] c = "G" -> 71 [] c = "H" -> 72 [] c = "I" -> 73 [] c = "L" -> 76
      [] c = "R" -> 82 [] c = "T" -> 84
      [] OTHER -> 120

\* s < t, byte by byte
RECURSIVE TextBefore(_, _)
TextBefore(s, t) ==
    IF t = <<>> THEN FALSE
    ELSE IF s = <<>> THEN TRUE
    ELSE IF Head(s) # Head(t) THEN CharRank(Head(s)) < CharRank(Head(t))
    ELSE TextBefore(Tail(s), Tail(t))

\* a < b in ORDER BY: NULL first, then the numbers, then the texts
ValueBefore(a, b) ==
    CASE a.t = "null" -> b.t # "null"
      [] a.t = "num" ->
            b.t = "str"
            \/ (b.t = "num" /\ 10 * a.v + Tenths(a) < 10 * b.v + Tenths(b))
      [] OTHER -> b.t = "str" /\ TextBefore(a.v, b.v)

\* strftime('%Y-%m-%d', date(date_obs, '-12 hours')) as session_date
SessionDate(r) == StrftimeYmd(Date(Column(r, "date_obs"), -12))

\* COUNT(*) over the rows R of imgs
RECURSIVE CountRows(_, _)
CountRows(imgs, R) ==
    IF R = {} THEN 0
    ELSE LET r == CHOOSE x \in R : TRUE IN imgs[r] + CountRows(imgs, R \ {r})

\* the sum, in tenths of a second, of the exposures of the rows R
RECURSIVE SumOfExposure(_, _)
SumOfExposure(imgs, R) ==
    IF R = {} THEN 0
    ELSE LET r == CHOOSE x \in R : TRUE
             exposure == Column(r, "exposure")
         IN  imgs[r] * (10 * exposure.v + Tenths(exposure))
             + SumOfExposure(imgs, R \ {r})

\* COALESCE(SUM(exposure), 0): a sum that takes no exposure for zero
SumExposureOrZero(imgs, R) ==
    LET known == {r \in R : Column(r, "exposure").t = "num"}
        total == SumOfExposure(imgs, known)
    IN  Float(total \div 10, total % 10)

\* SUM(exposure) over the rows R of imgs: the rows whose exposure is NULL
\* are left out, and the sum of no row is NULL
SumExposure(imgs, R) ==
    LET known == {r \in R : Column(r, "exposure").t = "num"} IN
    IF known = {} THEN Null
    ELSE LET total == SumOfExposure(imgs, known) IN
         Float(total \div 10, total % 10)

\* a row of one of the two queries
Group(imgs, R, session_date, filter) ==
    [session_date |-> session_date, filter |-> filter,
     count |-> CountRows(imgs, R), total_exposure |-> SumExposure(imgs, R)]

\* ORDER BY session_date, filter
GroupBefore(g, h) ==
    \/ ValueBefore(g.session_date, h.session_date)
    \/ g.session_date = h.session_date /\ ValueBefore(g.filter, h.filter)

RECURSIVE OrderBy(_)
OrderBy(groups) ==
    IF groups = {} THEN <<>>
    ELSE LET g == CHOOSE x \in groups :
                    \A y \in groups : x = y \/ GroupBefore(x, y)
         IN  <<g>> \o OrderBy(groups \ {g})

\* the first query: GROUP BY session_date, filter
Sessions(imgs, project_id) ==
    LET R == ImagesOf(imgs, project_id) IN
    OrderBy({Group(imgs,
                   {x \in R : SessionDate(x) = SessionDate(r)
                                /\ Column(x, "filter") = Column(r, "filter")},
                   SessionDate(r), Column(r, "filter")) : r \in R})

TotalByFilterDated(imgs, project_id) ==
    LET R == {r \in ImagesOf(imgs, project_id) : SessionDate(r).t # "null"} IN
    OrderBy({Group(imgs, {x \in R : Column(x, "filter") = Column(r, "filter")},
                   Null, Column(r, "filter")) : r \in R})

\* the second query: GROUP BY filter
TotalByFilter(imgs, project_id) ==
    LET R == ImagesOf(imgs, project_id) IN
    OrderBy({Group(imgs, {x \in R : Column(x, "filter") = Column(r, "filter")},
                   Null, Column(r, "filter")) : r \in R})

\* format_duration: hours, minutes and seconds; a total that is NULL is
\* shown as unknown. int() drops the fraction of the seconds: the three
\* numbers are those of the whole seconds of the total.
FormatDuration(total_exposure) ==
    IF total_exposure.t = "null" THEN [known |-> FALSE, h |-> 0, m |-> 0, s |-> 0]
    ELSE LET seconds == total_exposure.v
             remaining_seconds == seconds % 3600
         IN  [known |-> TRUE, h |-> seconds \div 3600,
              m |-> remaining_seconds \div 60, s |-> remaining_seconds % 60]

\* a line of session_list: kind is "night" for "--- Soirée du ... ---",
\* "session" for a filter of a night, "unknown" for "(date inconnue)",
\* "total" for a filter of the project, or a line of text
Line(kind, session_date, filter, count, total_exposure) ==
    [kind |-> kind, session_date |-> session_date, filter |-> filter,
     count |-> count, duration |-> FormatDuration(total_exposure)]

TextLine(kind) == Line(kind, Null, Null, 0, Null)

\* the loop over sessions, from row i on
RECURSIVE SessionLines(_, _, _)
SessionLines(sessions, i, current_date) ==
    IF i > Len(sessions) THEN <<>>
    ELSE LET g == sessions[i] IN
         IF g.session_date.t # "null"
         THEN (IF g.session_date # current_date
               THEN <<Line("night", g.session_date, Null, 0, Null)>>
               ELSE <<>>)
              \o <<Line("session", g.session_date, g.filter, g.count,
                        g.total_exposure)>>
              \o SessionLines(sessions, i + 1, g.session_date)
         ELSE <<Line("unknown", Null, g.filter, g.count, Null)>>
              \o SessionLines(sessions, i + 1, current_date)

\* the loop over total_by_filter
TotalLines(total_by_filter) ==
    [i \in 1..Len(total_by_filter) |->
        Line("total", Null, total_by_filter[i].filter, 0,
             total_by_filter[i].total_exposure)]

\* load_project_images, project_id being the selected project
LoadProjectImages(P, imgs, project_id) ==
    IF P[project_id].is_organization THEN <<TextLine("organization")>>
    ELSE SessionLines(Sessions(imgs, project_id), 1, Null)
            \o <<TextLine("blank"), TextLine("totals")>>
            \o TotalLines(TotalByFilter(imgs, project_id))

----------------------------------------------------------------------------
(* The state after construction: an empty store with the default mapping.  *)

\* the entries clear_database keeps or restores
DefaultConfig ==
    << <<"DATE-LOC", "date_obs">>, <<"EXPOSURE", "exposure">>, <<"RA", "ra">>,
       <<"DEC", "dec">>, <<"FILTER", "filter">> >>

\* the columns of images: those the inserts name and those the update
\* scripts add
InitialColumns ==
    {"id", "filename", "path", "project_id",
     "ra", "dec", "date_obs", "exposure", "filter", "IMAGETYP"}

\* no MetadataConfigWindow is open
ClosedWindow == [open |-> FALSE, fits_keywords |-> {}, used_keywords_list |-> <<>>]

Init ==
    /\ projects = [id \in {} |-> 0]
    /\ images = EmptyBag
    /\ metadata_config = DefaultConfig
    /\ columns = InitialColumns
    /\ selected = None
    /\ source_project_id = None
    /\ last = "none"
    /\ config_window = ClosedWindow

----------------------------------------------------------------------------
(* The handlers. *)

\* config_window.exec() is modal: the main window takes no event while the
\* MetadataConfigWindow is open
MainWindowEnabled == ~config_window.open

\* the context menu is disabled while a move is pending
ContextMenuEnabled == source_project_id = None

\* a click or a key press changes the selection: on_project_selected
SelectProject(id) ==
    /\ MainWindowEnabled
    /\ id \in DOMAIN projects
    /\ selected # id
    /\ selected' = id
    /\ UNCHANGED <<projects, images, metadata_config, columns, source_project_id, last, config_window>>

\* create_project: "Ajouter un projet" of the context menu
CreateProject(project_name, is_organization, as_subproject) ==
    /\ MainWindowEnabled
    /\ ContextMenuEnabled
    /\ NewId(projects) <= MaxId
    /\ LET parent_id == IF selected # None /\ as_subproject THEN selected ELSE None
       IN  IF NameTaken(projects, project_name, None)
           THEN /\ last' = "DuplicateName"
                /\ UNCHANGED <<projects, selected>>
           ELSE /\ projects' = InsertProject(projects, project_name, parent_id,
                                             is_organization)
                /\ selected' = None
                /\ last' = "created"
    /\ UNCHANGED <<images, metadata_config, columns, source_project_id, config_window>>

\* create_subproject: "Nouveau projet" of the context menu of an item
CreateSubproject(parent_id, project_name) ==
    /\ MainWindowEnabled
    /\ ContextMenuEnabled
    /\ parent_id \in DOMAIN projects
    /\ NewId(projects) <= MaxId
    /\ IF NameTaken(projects, project_name, None)
       THEN /\ last' = "DuplicateName"
            /\ UNCHANGED <<projects, selected>>
       ELSE /\ projects' = InsertProject(projects, project_name, parent_id, FALSE)
            /\ selected' = None
            /\ last' = "created"
    /\ UNCHANGED <<images, metadata_config, columns, source_project_id, config_window>>

\* rename_project
RenameProject(project_id, new_name) ==
    /\ MainWindowEnabled
    /\ ContextMenuEnabled
    /\ project_id \in DOMAIN projects
    /\ IF NameTaken(projects, new_name, project_id)
       THEN /\ last' = "DuplicateName"
            /\ UNCHANGED <<projects, selected>>
       ELSE /\ projects' = [projects EXCEPT ![project_id].name = new_name]
            /\ selected' = None
            /\ last' = "renamed"
    /\ UNCHANGED <<images, metadata_config, columns, source_project_id, config_window>>

\* move_project: the next click on an item chooses the target
MoveProject(id) ==
    /\ MainWindowEnabled
    /\ ContextMenuEnabled
    /\ id \in DOMAIN projects
    /\ source_project_id' = id
    /\ UNCHANGED <<projects, images, metadata_config, columns, selected, last, config_window>>

SetParentFlatten(P, id, parent_id) ==
    [x \in DOMAIN P |->
        IF x = id \/ P[x].parent_id = id
        THEN [P[x] EXCEPT !.parent_id = parent_id] ELSE P[x]]

\* UPDATE projects SET parent_id = ? WHERE id = ?
SetParent(P, id, parent_id) ==
    [x \in DOMAIN P |-> IF x = id THEN [P[x] EXCEPT !.parent_id = parent_id] ELSE P[x]]

\* a handle_move_project that returns from the refusal without
\* reset_move_project
HandleMoveProjectArmed(target_project_id) ==
    /\ MainWindowEnabled
    /\ source_project_id # None
    /\ target_project_id \in DOMAIN projects
    /\ IF IsChildOf(projects, source_project_id, target_project_id)
       THEN /\ last' = "CyclicMove"
            /\ selected' = target_project_id
            /\ UNCHANGED <<projects, source_project_id>>
       ELSE /\ projects' = SetParent(projects, source_project_id, target_project_id)
            /\ selected' = None
            /\ last' = "moved"
            /\ source_project_id' = None
    /\ UNCHANGED <<images, metadata_config, columns, config_window>>

\* handle_move_project, with reset_move_project: the click on the target
HandleMoveProject(target_project_id) ==
    /\ MainWindowEnabled
    /\ source_project_id # None
    /\ target_project_id \in DOMAIN projects
    /\ IF IsChildOf(projects, source_project_id, target_project_id)
       THEN /\ last' = "CyclicMove"
            /\ selected' = target_project_id
            /\ UNCHANGED projects
       ELSE /\ projects' = SetParent(projects, source_project_id, target_project_id)
            /\ selected' = None
            /\ last' = "moved"
    /\ source_project_id' = None
    /\ UNCHANGED <<images, metadata_config, columns, config_window>>

\* delete_project: confirm_tree answers the question asked when the project
\* has sub-projects, confirm the question asked in every case
DeleteProject(project_id, confirm_tree, confirm) ==
    /\ MainWindowEnabled
    /\ ContextMenuEnabled
    /\ project_id \in DOMAIN projects
    /\ LET has_children == HasChildren(projects, project_id)
           project_tree == ProjectTree(projects, project_id)
       IN  IF has_children /\ ~confirm_tree
           THEN /\ last' = "HasChildren"
                /\ UNCHANGED <<projects, images, selected>>
           ELSE IF ~confirm
           THEN UNCHANGED <<projects, images, selected, last>>
           ELSE /\ images' = DeleteImagesOf(images, project_tree)
                /\ projects' = DeleteProjectsIn(projects, project_tree)
                /\ selected' = None
                /\ last' = IF has_children THEN "deleted_tree" ELSE "deleted"
    /\ UNCHANGED <<metadata_config, columns, source_project_id, config_window>>

\* handle_drop_event with an item under the cursor: a directory dropped on
\* a project; confirm answers the import confirmation
DropOnProject(dir_path, project_id, confirm) ==
    /\ MainWindowEnabled
    /\ project_id \in DOMAIN projects
    /\ IF projects[project_id].is_organization
       THEN /\ last' = "OrganizationProjectNotImportable"
            /\ UNCHANGED <<images, columns>>
       ELSE IF ~confirm
       THEN UNCHANGED <<images, columns, last>>
       ELSE \E o \in ImportOutcomes(images, columns, metadata_config,
                                    dir_path, project_id) :
                /\ images' = o.images
                /\ columns' = o.columns
                /\ last' = o.result
    /\ UNCHANGED <<projects, metadata_config, selected, source_project_id, config_window>>

\* handle_drop_event on the empty area: create_project_from_drag
CreateProjectFromDrag(dir_path, project_name) ==
    /\ MainWindowEnabled
    /\ NewId(projects) <= MaxId
    /\ IF NameTaken(projects, project_name, None)
       THEN /\ last' = "DuplicateName"
            /\ UNCHANGED <<projects, images, columns, selected>>
       ELSE LET project_id == NewId(projects) IN
            /\ projects' = InsertProject(projects, project_name, None, FALSE)
            /\ \E o \in ImportOutcomes(images, columns, metadata_config,
                                       dir_path, project_id) :
                /\ images' = o.images
                /\ columns' = o.columns
                /\ selected' = IF o.result = "Error" THEN selected ELSE project_id
                /\ last' = o.result
    /\ UNCHANGED <<metadata_config, source_project_id, config_window>>

\* open_folder_dialog: the button is enabled while a project is selected
OpenFolderDialog(dir_path) ==
    /\ MainWindowEnabled
    /\ selected # None
    /\ \E o \in ImportOutcomes(images, columns, metadata_config,
                               dir_path, selected) :
        /\ images' = o.images
        /\ columns' = o.columns
        /\ last' = o.result
    /\ UNCHANGED <<projects, metadata_config, selected, source_project_id, config_window>>

\* the mapping clear_database leaves: the entries of the five kept fields,
\* then the default entries that were not there
ClearedConfig(config) ==
    LET Kept(e) == e[2] \in {"date_obs", "exposure", "ra", "dec", "filter"}
        Missing(e) == \A i \in 1..Len(config) : config[i] # e
    IN  SelectSeq(config, Kept) \o SelectSeq(DefaultConfig, Missing)

\* clear_database, with its two confirmations
ClearDatabase(confirm1, confirm2) ==
    /\ MainWindowEnabled
    /\ IF confirm1 /\ confirm2
       THEN /\ images' = EmptyBag
            /\ projects' = DeleteProjectsIn(projects, DOMAIN projects)
            /\ metadata_config' = ClearedConfig(metadata_config)
            /\ selected' = None
            /\ last' = "cleared"
       ELSE UNCHANGED <<projects, images, metadata_config, selected, last>>
    /\ UNCHANGED <<columns, source_project_id, config_window>>

----------------------------------------------------------------------------
(* The MetadataConfigWindow of src/src/ui/metadata_config_window.py. It     *)
(* edits its own list; save_config writes the list to metadata_config.     *)

MaxEntries == 7             \* longest used_keywords_list the user builds

protected_keywords_of_clear_database ==
    {"date_obs", "exposure", "ra", "dec", "filter"}

\* self.protected_keywords
protected_keywords ==
    {"date_obs", "exposure", "ra", "dec", "filter", "imagetyp"}

\* the list without its item i: used_keywords_list.takeItem(row)
TakeItem(list, i) == SubSeq(list, 1, i - 1) \o SubSeq(list, i + 1, Len(list))

\* open_metadata_config: the window is built, load_config fills its list
OpenMetadataConfig ==
    /\ MainWindowEnabled
    /\ config_window' = [open |-> TRUE, fits_keywords |-> {},
                         used_keywords_list |-> metadata_config]
    /\ UNCHANGED <<projects, images, metadata_config, columns, selected,
                   source_project_id, last>>

\* load_fits_keywords: the keywords of the header of a chosen file
LoadFitsKeywords(file) ==
    /\ config_window.open
    /\ config_window' =
         IF file.readable
         THEN [config_window EXCEPT !.fits_keywords = DOMAIN file.header]
         ELSE config_window
    /\ UNCHANGED <<projects, images, metadata_config, columns, selected,
                   source_project_id, last>>

\* an add_keyword that writes the entry to metadata_config at once
AddKeywordStored(fits_keyword, db_name) ==
    /\ config_window.open
    /\ fits_keyword \in config_window.fits_keywords
    /\ Len(config_window.used_keywords_list) < MaxEntries
    /\ config_window' =
         [config_window EXCEPT !.used_keywords_list =
                                    Append(@, <<fits_keyword, db_name>>)]
    /\ metadata_config' = Append(metadata_config, <<fits_keyword, db_name>>)
    /\ UNCHANGED <<projects, images, columns, selected, source_project_id, last>>

\* add_keyword: the selected keyword, under the name the user types
AddKeyword(fits_keyword, db_name) ==
    /\ config_window.open
    /\ fits_keyword \in config_window.fits_keywords
    /\ Len(config_window.used_keywords_list) < MaxEntries
    /\ config_window' =
         [config_window EXCEPT !.used_keywords_list =
                                    Append(@, <<fits_keyword, db_name>>)]
    /\ UNCHANGED <<projects, images, metadata_config, columns, selected,
                   source_project_id, last>>

\* remove_keyword, item i of the list being selected
RemoveKeyword(i) ==
    /\ config_window.open
    /\ i \in 1..Len(config_window.used_keywords_list)
    /\ LET db_name == config_window.used_keywords_list[i][2] IN
       IF db_name \in protected_keywords
       THEN /\ last' = "Protected"
            /\ UNCHANGED config_window
       ELSE /\ config_window' =
                 [config_window EXCEPT !.used_keywords_list = TakeItem(@, i)]
            /\ UNCHANGED last
    /\ UNCHANGED <<projects, images, metadata_config, columns, selected,
                   source_project_id>>

\* edit_keyword, on a double click on item i; the user types new_db_name
EditKeyword(i, new_db_name) ==
    /\ config_window.open
    /\ i \in 1..Len(config_window.used_keywords_list)
    /\ LET fits_keyword == config_window.used_keywords_list[i][1]
           db_name == config_window.used_keywords_list[i][2]
       IN  IF db_name \in protected_keywords
           THEN /\ last' = "Protected"
                /\ UNCHANGED config_window
           ELSE /\ config_window' =
                     [config_window EXCEPT !.used_keywords_list[i] =
                                                <<fits_keyword, new_db_name>>]
                /\ UNCHANGED last
    /\ UNCHANGED <<projects, images, metadata_config, columns, selected,
                   source_project_id>>

\* save_config: "Sauvegarder"
SaveConfig ==
    /\ config_window.open
    /\ metadata_config' = config_window.used_keywords_list
    /\ config_window' = ClosedWindow
    /\ last' = "saved"
    /\ UNCHANGED <<projects, images, columns, selected, source_project_id>>

\* reject: "Annuler"
Reject ==
    /\ config_window.open
    /\ config_window' = ClosedWindow
    /\ UNCHANGED <<projects, images, metadata_config, columns, selected,
                   source_project_id, last>>

----------------------------------------------------------------------------
(* Store failures. An execute can raise sqlite3.Error (disk I/O error,     *)
(* database locked). The exception leaves the with block of the            *)
(* connection, which rolls back the open transaction, if there is one. The *)
(* sqlite3 module opens a transaction before a statement that begins with  *)
(* INSERT, UPDATE, DELETE or REPLACE, and before no other statement.       *)

\* whether the module opens a transaction before the statement
OpensTransaction(first_keyword) ==
    first_keyword \in {"INSERT", "UPDATE", "DELETE", "REPLACE"}

\* what a statement that changed table to changed leaves when the with
\* block is left on an exception
AfterException(first_keyword, table, changed) ==
    IF OpensTransaction(first_keyword) THEN table ELSE changed

\* delete_project, confirmed, when statement number at of its two
\* "WITH RECURSIVE ... DELETE" statements raises
DeleteProjectInterrupted(project_id, confirm_tree, at) ==
    /\ MainWindowEnabled
    /\ ContextMenuEnabled
    /\ project_id \in DOMAIN projects
    /\ HasChildren(projects, project_id) => confirm_tree
    /\ at \in {1, 2}
    /\ images' =
         IF at = 1 THEN images
         ELSE AfterException("WITH", images,
                             DeleteImagesOf(images, ProjectTree(projects, project_id)))
    /\ last' = "Error"
    /\ UNCHANGED <<projects, metadata_config, columns, selected, source_project_id,
                   config_window>>

\* handle_move_project when its UPDATE raises: the except clause shows the
\* error and reset_move_project runs after it
HandleMoveProjectInterrupted(target_project_id) ==
    /\ MainWindowEnabled
    /\ source_project_id # None
    /\ target_project_id \in DOMAIN projects
    /\ ~IsChildOf(projects, source_project_id, target_project_id)
    /\ projects' = AfterException("UPDATE", projects,
                                  SetParent(projects, source_project_id,
                                            target_project_id))
    /\ selected' = target_project_id
    /\ last' = "Error"
    /\ source_project_id' = None
    /\ UNCHANGED <<images, metadata_config, columns, config_window>>

\* the files of the walk up to the one whose INSERT is number k
RECURSIVE FilesBeforeInsert(_, _, _, _, _)
FilesBeforeInsert(files, i, imgs, project_id, k) ==
    IF i > Len(files) THEN Len(files) + 1
    ELSE IF IsWalked(files[i]) /\ ~ImageExists(imgs, files[i].filename, project_id)
    THEN IF k = 1 THEN i
         ELSE FilesBeforeInsert(files, i + 1,
                                InsertImage(imgs, files[i], project_id, NoHeader),
                                project_id, k - 1)
    ELSE FilesBeforeInsert(files, i + 1, imgs, project_id, k)

\* import_fits_from_path on a drop on a project, when INSERT number k of the
\* walk raises: the rows inserted before it belong to the transaction the
\* first INSERT opened. The handler does not catch the exception.
ImportInterrupted(dir_path, project_id, k) ==
    /\ MainWindowEnabled
    /\ project_id \in DOMAIN projects
    /\ ~projects[project_id].is_organization
    /\ ValidateFitsDirectory(Walk(dir_path))
    /\ LET files == Walk(dir_path)
           stop == FilesBeforeInsert(files, 1, images, project_id, k)
       IN  /\ stop <= Len(files)
           /\ \E added \in AddedColumns(columns, metadata_config) :
                LET r == ImportLoop(SubSeq(files, 1, stop - 1), 1, images, project_id,
                                    metadata_config, columns \cup added,
                                    RowcountOfQuery)
                IN  /\ r.ok
                    /\ images' = AfterException("INSERT", images, r.images)
                    /\ columns' = columns \cup added
    /\ last' = "Error"
    /\ UNCHANGED <<projects, metadata_config, selected, source_project_id,
                   config_window>>

\* one step of the window, the user typing names of names, choosing
\* directories of dirs and ticking "Projet d'organisation" as in orgs
Step(names, dirs, orgs) ==
    \/ \E id \in Ids : SelectProject(id)
    \/ \E name \in names, org \in orgs, sub \in BOOLEAN :
            CreateProject(name, org, sub)
    \/ \E id \in Ids, name \in names : CreateSubproject(id, name)
    \/ \E id \in Ids, name \in names : RenameProject(id, name)
    \/ \E id \in Ids : MoveProject(id)
    \/ \E id \in Ids : HandleMoveProject(id)
    \/ \E id \in Ids, confirm_tree \in BOOLEAN, confirm \in BOOLEAN :
            DeleteProject(id, confirm_tree, confirm)
    \/ \E dir \in dirs, id \in Ids, confirm \in BOOLEAN :
            DropOnProject(dir, id, confirm)
    \/ \E dir \in dirs, name \in names : CreateProjectFromDrag(dir, name)
    \/ \E dir \in dirs : OpenFolderDialog(dir)
    \/ \E confirm1 \in BOOLEAN, confirm2 \in BOOLEAN :
            ClearDatabase(confirm1, confirm2)

\* every directory, two names: the imports in full, trees of two projects
Next == Step({"M31", "M42"}, DirNames, BOOLEAN)

Spec == Init /\ [][Next]_vars

\* three names, one directory, no organization project: trees of three
\* projects, with grandchildren
NextTree == Step(Names, {"d1"}, {FALSE})

SpecTree == Init /\ [][NextTree]_vars

\* one step of the MetadataConfigWindow, the user reading the keywords of the
\* files of dirs, adding keywords of fits_keywords and typing names of
\* db_names
ConfigStepOf(dirs, fits_keywords, db_names) ==
    \/ OpenMetadataConfig
    \/ \E dir \in dirs : \E i \in 1..Len(Walk(dir)) : LoadFitsKeywords(Walk(dir)[i])
    \/ \E fits_keyword \in fits_keywords, db_name \in db_names :
            AddKeyword(fits_keyword, db_name)
    \/ \E i \in 1..MaxEntries : RemoveKeyword(i)
    \/ \E i \in 1..MaxEntries, new_db_name \in db_names : EditKeyword(i, new_db_name)
    \/ SaveConfig
    \/ Reject

ConfigStep(dirs, db_names) == ConfigStepOf(dirs, {"GAIN", "IMAGETYP"}, db_names)

\* the mapping edited, one project, one directory
NextConfig ==
    \/ Step({"M31"}, {"d1"}, {FALSE})
    \/ ConfigStep({"d1"}, {"gain", "imagetyp"})

SpecConfig == Init /\ [][NextConfig]_vars

\* the mapping edited with names that differ by case only and a name with
\* an apostrophe
NextColumns ==
    \/ Step({"M31"}, {"d1"}, {FALSE})
    \/ ConfigStepOf({"d1"}, {"GAIN"}, {"gain", "Gain", "o'clock"})

SpecColumns == Init /\ [][NextColumns]_vars

\* the mapping edited so that two entries name one db_name, the files of two
\* directories
NextMapping ==
    \/ Step({"M31"}, {"d1", "d6"}, {FALSE})
    \/ ConfigStepOf({"d1", "d6"}, {"GAIN"}, {"ra", "exposure"})

SpecMapping == Init /\ [][NextMapping]_vars

\* the statements of the store can fail
FailureStep(dirs) ==
    \/ \E id \in Ids, confirm_tree \in BOOLEAN, at \in {1, 2} :
            DeleteProjectInterrupted(id, confirm_tree, at)
    \/ \E dir \in dirs, id \in Ids, k \in 1..2 : ImportInterrupted(dir, id, k)
    \/ \E id \in Ids : HandleMoveProjectInterrupted(id)

NextFailure ==
    \/ Step({"M31", "M42"}, {"d1"}, {FALSE})
    \/ FailureStep({"d1"})

SpecFailure == Init /\ [][NextFailure]_vars

\* the directories of HeaderDirNames, two projects
NextHeaders == Step({"M31", "M42"}, HeaderDirNames, {FALSE})

SpecHeaders == Init /\ [][NextHeaders]_vars

\* the directory of DurationDirNames, two projects
NextDuration == Step({"M31", "M42"}, DurationDirNames, {FALSE})

SpecDuration == Init /\ [][NextDuration]_vars

----------------------------------------------------------------------------
(* The parent relation, read upwards: what the properties below compare    *)
(* the store's downward queries with.                                      *)

\* the projects reached from id by following parent_id once or more
RECURSIVE AncestorsFrom(_, _, _)
AncestorsFrom(P, id, fuel) ==
    IF fuel = 0 \/ id \notin DOMAIN P THEN {}
    ELSE IF P[id].parent_id \notin DOMAIN P THEN {}
    ELSE {P[id].parent_id} \cup AncestorsFrom(P, P[id].parent_id, fuel - 1)

Ancestors(P, id) == AncestorsFrom(P, id, Cardinality(DOMAIN P) + 1)

\* the projects below id, at any depth
Descendants(P, id) == {x \in DOMAIN P : id \in Ancestors(P, x)}

\* the descendant closure of id: id and the projects below it
Closure(P, id) == ({id} \cap DOMAIN P) \cup Descendants(P, id)

\* the depth of id: the number of its ancestors
Depth(P, id) == Cardinality(Ancestors(P, id))

----------------------------------------------------------------------------
(* Properties of the project tree. *)

\* C1: the parent relation over the stored projects is acyclic: no project
\* is reached from itself by following parent_id once or more.
C1_ParentGraphAcyclic ==
    \A id \in DOMAIN projects : id \notin Ancestors(projects, id)

\* a move has just been applied and left a project with a grandparent
C1_Witness ==
    /\ last = "moved"
    /\ \E id \in DOMAIN projects : Depth(projects, id) >= 2

\* C2: a move of a project onto itself or onto one of its descendants, at
\* any depth, is rejected with CyclicMove and changes no project; and
\* is_child_of(P, P) is true of every project P.
C2_CyclicMoveRejected ==
    [][/\ \A p \in DOMAIN projects : IsChildOf(projects, p, p)
       /\ \A target \in Ids :
            ( /\ HandleMoveProject(target)
              /\ source_project_id \in DOMAIN projects
              /\ target \in Closure(projects, source_project_id) )
            => (last' = "CyclicMove" /\ projects' = projects /\ images' = images)
      ]_vars

\* a move has just been rejected whose target has a grandparent: the source
\* is the target, its parent or its grandparent
C2_Witness ==
    /\ last = "CyclicMove"
    /\ selected \in DOMAIN projects
    /\ Depth(projects, selected) >= 2

\* C3: a move of project A under an existing project that is neither A nor
\* a descendant of A is applied: A's parent_id becomes the target and nothing
\* else changes, neither the other projects' rows nor A's name and flag nor
\* any image.
C3_MoveApplied ==
    [][\A target \in Ids :
            ( /\ HandleMoveProject(target)
              /\ source_project_id \in DOMAIN projects
              /\ target \notin Closure(projects, source_project_id) )
            => /\ last' = "moved"
               /\ DOMAIN projects' = DOMAIN projects
               /\ projects'[source_project_id] =
                    [projects[source_project_id] EXCEPT !.parent_id = target]
               /\ \A id \in DOMAIN projects \ {source_project_id} :
                    projects'[id] = projects[id]
               /\ images' = images
      ]_vars

\* a move has just been applied; some project that has a child was moved
\* under a project created after it (a new project never gets a parent with
\* a larger id than its own), and the child owns images
C3_Witness ==
    /\ last = "moved"
    /\ \E a, c \in DOMAIN projects :
        /\ projects[a].parent_id > a
        /\ projects[c].parent_id = a
        /\ \E r \in Rows(images) : r.project_id = c

\* C4: a confirmed deletion removes exactly the descendant closure of the
\* project and exactly the images owned by the projects of the closure; the
\* other projects and the other images are unchanged.
C4_CascadeDeletesClosure ==
    [][\A id \in Ids, confirm_tree \in BOOLEAN :
            ( /\ DeleteProject(id, confirm_tree, TRUE)
              /\ (Descendants(projects, id) # {} => confirm_tree) )
            => /\ DOMAIN projects' = DOMAIN projects \ Closure(projects, id)
               /\ \A x \in DOMAIN projects' : projects'[x] = projects[x]
               /\ Rows(images') =
                    {r \in Rows(images) : r.project_id \notin Closure(projects, id)}
               /\ \A r \in Rows(images') : images'[r] = images[r]
      ]_vars

\* a project with sub-projects has just been deleted, and a project that
\* owns images is left
C4_Witness ==
    /\ last = "deleted_tree"
    /\ \E id \in DOMAIN projects : \E r \in Rows(images) : r.project_id = id

\* C5: the deletion of a project that has a child, when the deletion of the
\* tree is not confirmed, fails with HasChildren and deletes nothing; and no
\* step removes a project and leaves one of its descendants.
C5_HasChildrenRejected ==
    [][/\ \A id \in Ids, confirm \in BOOLEAN :
            ( /\ DeleteProject(id, FALSE, confirm)
              /\ \E c \in DOMAIN projects : projects[c].parent_id = id )
            => (last' = "HasChildren" /\ projects' = projects /\ images' = images)
       /\ \A id \in DOMAIN projects \ DOMAIN projects' :
            Descendants(projects, id) \cap DOMAIN projects' = {}
      ]_vars

\* the deletion of a project with a grandchild has just been refused
C5_Witness ==
    /\ last = "HasChildren"
    /\ \E id \in DOMAIN projects : Depth(projects, id) >= 2
    /\ images # EmptyBag

----------------------------------------------------------------------------
(* Properties of the import. *)

\* a step that runs import_fits_from_path, or refuses to
ImportStep ==
    \/ \E dir \in DirNames : OpenFolderDialog(dir)
    \/ \E dir \in DirNames, id \in Ids : DropOnProject(dir, id, TRUE)
    \/ \E dir \in DirNames, name \in Names : CreateProjectFromDrag(dir, name)

\* C6: an import into an organization project, by a drop on its item or by
\* the open-folder button while it is selected, fails with
\* OrganizationProjectNotImportable and inserts no image.
C6_OrganizationImportRejected ==
    [][\A dir \in DirNames :
        /\ \A id \in Ids :
            (DropOnProject(dir, id, TRUE) /\ projects[id].is_organization)
            => (last' = "OrganizationProjectNotImportable" /\ images' = images)
        /\ ( /\ OpenFolderDialog(dir)
             /\ projects[selected].is_organization )
            => (last' = "OrganizationProjectNotImportable" /\ images' = images)
      ]_vars

\* C7: no image belongs to an organization project.
C7_NoImageInOrganization ==
    \A r \in Rows(images) :
        r.project_id \in DOMAIN projects => ~projects[r.project_id].is_organization

\* C8: importing a directory into a project and then the same directory into
\* the same project again inserts nothing the second time: the images after
\* the second import are those after the first.
C8_SecondImportInsertsNothing ==
    \A dir \in DirNames, id \in DOMAIN projects :
        \A first \in ImportOutcomes(images, columns, metadata_config, dir, id) :
            \A second \in ImportOutcomes(first.images, first.columns,
                                         metadata_config, dir, id) :
                /\ second.n = 0
                /\ second.images = first.images
                /\ BagCardinality(second.images) = BagCardinality(first.images)

\* an import of d1 has just inserted rows: its two files named a.fits gave
\* one row, and the next import of d1 meets every file again
C8_Witness ==
    /\ last = "imported"
    /\ \E r \in Rows(images) : r.path = "d1/a.fits"
    /\ \E r \in Rows(images) : r.path = "d1/sub/c.FITS"

\* C9: there is at most one image per (filename, project_id).
C9_OneImagePerFileAndProject ==
    /\ \A r \in Rows(images) : images[r] = 1
    /\ \A r1, r2 \in Rows(images) :
        (r1.filename = r2.filename /\ r1.project_id = r2.project_id) => r1 = r2

\* a project holds a.fits from d2 and c.FITS from d1: the import of d1 met
\* a.fits twice, in d1 and in d1/sub, after the import of d2 had stored it
C9_Witness ==
    \E id \in DOMAIN projects :
        /\ \E r \in Rows(images) : r.project_id = id /\ r.path = "d2/a.fits"
        /\ \E r \in Rows(images) : r.project_id = id /\ r.path = "d1/sub/c.FITS"

\* C10: an import changes no image that is already stored: every row is
\* there afterwards, with the same path and the same fields.
C10_ImportKeepsExistingRows ==
    [][(images' # images /\ ImportStep) =>
        \A r \in Rows(images) : r \in Rows(images') /\ images'[r] = images[r]
      ]_vars

\* a project holds a.fits from d1 with the fields of d1/a.fits and holds
\* c.FITS: the walk of d1 went on past d1/sub/a.fits, whose path and header
\* differ from the stored ones, and left the row as it was
C10_Witness ==
    /\ last = "imported"
    /\ \E id \in DOMAIN projects :
        /\ \E r \in Rows(images) :
            /\ r.project_id = id
            /\ r.path = "d1/a.fits"
            /\ r.meta = ExtractFitsMetadata(metadata_config, Walk("d1")[1])
        /\ \E r \in Rows(images) : r.project_id = id /\ r.path = "d1/sub/c.FITS"
        /\ ExtractFitsMetadata(metadata_config, Walk("d1")[3])
             # ExtractFitsMetadata(metadata_config, Walk("d1")[1])

\* C11: the count an import reports is the number of images it inserted,
\* the images after less the images before, whatever the files are: new,
\* already stored or unreadable, none inserted included.
C11_ReportedCountIsInsertedCount ==
    \A dir \in DirNames, id \in DOMAIN projects :
        \A o \in ImportOutcomes(images, columns, metadata_config, dir, id) :
            o.result = "imported" =>
                /\ o.n = BagCardinality(o.images) - BagCardinality(images)
                /\ o.reported = o.n

\* C12: a walked file whose header cannot be read is skipped: the import
\* stores no row for it, goes on, and stores every other walked file that
\* the project did not hold.
C12_HeaderFailureSkipsFile ==
    \A dir \in DirNames, id \in DOMAIN projects :
        \A o \in ImportOutcomes(images, columns, metadata_config, dir, id) :
            o.result = "imported" =>
                \A i \in 1..Len(Walk(dir)) :
                    LET file == Walk(dir)[i]
                        Stored(imgs) == \E r \in Rows(imgs) :
                            r.path = file.path /\ r.project_id = id
                    IN  IsWalked(file) =>
                            IF file.readable
                            THEN ImageExists(o.images, file.filename, id)
                            ELSE Stored(o.images) => Stored(images)

----------------------------------------------------------------------------
(* Properties of the mapping. *)

\* the stored fields of the protected set
ProtectedFields == {"date_obs", "exposure", "ra", "dec", "filter", "imagetyp"}

\* the stored fields of the entries of a mapping
StoredFields(config) == {config[i][2] : i \in 1..Len(config)}

\* C13: an entry of the editor's list whose stored field is date_obs,
\* exposure, ra, dec, filter or imagetyp is neither removed nor renamed: the
\* attempt ends with Protected, and the list and the stored mapping are
\* unchanged.
C13_ProtectedEntryKept ==
    [][\A i \in 1..MaxEntries :
        ( /\ i <= Len(config_window.used_keywords_list)
          /\ config_window.used_keywords_list[i][2] \in ProtectedFields
          /\ \/ RemoveKeyword(i)
             \/ \E new_db_name \in {"gain", "imagetyp"} : EditKeyword(i, new_db_name) )
        => /\ last' = "Protected"
           /\ config_window' = config_window
           /\ metadata_config' = metadata_config
      ]_vars

\* an attempt on a protected entry has just been refused, in a list that
\* holds an entry added for imagetyp after the five entries of the defaults
C13_Witness ==
    /\ last = "Protected"
    /\ config_window.open
    /\ Len(config_window.used_keywords_list) = 6
    /\ config_window.used_keywords_list[6] = <<"IMAGETYP", "imagetyp">>

\* C14: after a confirmed clear_database the stored mapping has an entry for
\* each of date_obs, exposure, ra, dec, filter and imagetyp, and no entry for
\* any other stored field, whatever the mapping was.
C14_ResetRestoresProtectedSet ==
    [][ClearDatabase(TRUE, TRUE) =>
        StoredFields(metadata_config') = ProtectedFields
      ]_vars

----------------------------------------------------------------------------
(* Properties of the store under failures. *)

\* C15: a store failure in the middle of an operation, between the two
\* deletions of delete_project or after some INSERTs of an import, leaves the
\* projects and the images as they were before the operation.
C15_InterruptedOperationLeavesNothing ==
    [][( \/ \E id \in Ids, confirm_tree \in BOOLEAN, at \in {1, 2} :
                DeleteProjectInterrupted(id, confirm_tree, at)
         \/ \E dir \in DirNames, id \in Ids, k \in 1..2 :
                ImportInterrupted(dir, id, k) )
        => (projects' = projects /\ images' = images)
      ]_vars

\* C16: the parent_id of every project is None or the id of a stored
\* project, the project_id of every image is the id of a stored project, and
\* an image is removed only by the step that removes its project.
C16_ReferencesStored ==
    [][/\ \A id \in DOMAIN projects' :
            projects'[id].parent_id \in {None} \cup DOMAIN projects'
       /\ \A r \in Rows(images') : r.project_id \in DOMAIN projects'
       /\ \A r \in Rows(images) \ Rows(images') :
            r.project_id \in DOMAIN projects \ DOMAIN projects'
      ]_vars

----------------------------------------------------------------------------
(* Properties of the stored fields. *)

\* every directory of the model
AllDirNames == DirNames \cup HeaderDirNames

\* the files of the model
Files == UNION {{Walk(dir)[i] : i \in 1..Len(Walk(dir))} : dir \in AllDirNames}

\* the keywords that config maps to the stored field db_name
KeywordsOf(config, db_name) ==
    {config[j][1] : j \in {i \in 1..Len(config) : config[i][2] = db_name}}

\* a raw date, trimmed, its fraction cut to six digits: the fraction is what
\* follows the last point
TrimmedAndCut(raw) ==
    LET s == Strip(raw)
        dots == DotPositions(s)
    IN  IF dots = {} THEN s
        ELSE SubSeq(s, 1, Min({Len(s), Max(dots) + 6}))

\* C17: the date_obs of a stored image is the header value mapped to
\* date_obs, trimmed, with its fraction of a second cut to six digits at most
\* and all that precedes the fraction kept; a value without fraction is
\* stored trimmed.
C17_DateObsTrimmedAndCut ==
    \A r \in Rows(images) : \A file \in Files :
        (file.path = r.path /\ file.readable) =>
            \A k \in KeywordsOf(metadata_config, "date_obs") \cap DOMAIN file.header :
                Column(r, "date_obs") = Text(TrimmedAndCut(file.header[k].v))

\* C18: a walked file whose value for exposure is no number is inserted all
\* the same, without exposure and with each other mapped field of its header:
\* the date_obs trimmed and cut, any other field as the header gives it.
C18_BadExposureKeepsOtherFields ==
    \A dir \in AllDirNames, id \in DOMAIN projects :
        \A o \in ImportOutcomes(images, columns, metadata_config, dir, id) :
            \A i \in 1..Len(Walk(dir)) :
                LET file == Walk(dir)[i]
                    bad == \E k \in KeywordsOf(metadata_config, "exposure")
                                        \cap DOMAIN file.header :
                                ~FloatOf(file.header[k]).ok
                IN  ( /\ IsWalked(file) /\ file.readable /\ bad
                      /\ ~ImageExists(images, file.filename, id)
                      /\ \A j \in 1..(i - 1) : Walk(dir)[j].filename # file.filename )
                    => /\ o.result = "imported"
                       /\ \E r \in Rows(o.images) :
                            /\ r.path = file.path /\ r.project_id = id
                            /\ Column(r, "exposure").t = "null"
                            /\ \A j \in 1..Len(metadata_config) :
                                LET k == metadata_config[j][1]
                                    db_name == metadata_config[j][2]
                                IN  (k \in DOMAIN file.header /\ db_name # "exposure")
                                    => Column(r, db_name) =
                                         IF db_name = "date_obs"
                                         THEN Text(TrimmedAndCut(file.header[k].v))
                                         ELSE file.header[k]

----------------------------------------------------------------------------
(* Properties of the summary. The calendar is read here from the table of  *)
(* the months, not from day numbers.                                       *)

LeapYear(Y) == Y % 4 = 0 /\ (Y % 100 # 0 \/ Y % 400 = 0)

DaysInMonth(Y, M) ==
    CASE M = 2 -> IF LeapYear(Y) THEN 29 ELSE 28
      [] M \in {4, 6, 9, 11} -> 30
      [] OTHER -> 31

\* the calendar date before <<Y, M, D>>
PreviousDate(Y, M, D) ==
    IF D > 1 THEN <<Y, M, D - 1>>
    ELSE IF M > 1 THEN <<Y, M - 1, DaysInMonth(Y, M - 1)>>
    ELSE <<Y - 1, 12, 31>>

\* a text that begins as YYYY-MM-DD
IsDated(value) ==
    /\ value.t = "str"
    /\ Len(value.v) >= 10
    /\ value.v[5] = "-"
    /\ value.v[8] = "-"

\* the date a text YYYY-MM-DD... begins with
CalendarDate(s) ==
    <<DigitsValue(SubSeq(s, 1, 4)), DigitsValue(SubSeq(s, 6, 7)),
      DigitsValue(SubSeq(s, 9, 10))>>

\* the hour of YYYY-MM-DDTHH..., 0 when the text is a date only
HourOf(s) == IF Len(s) >= 13 THEN DigitsValue(SubSeq(s, 12, 13)) ELSE 0

\* the night of a date_obs: the date before when taken before 12:00, the
\* same date when taken at 12:00 or after
NightOf(s) ==
    LET date == CalendarDate(s) IN
    IF HourOf(s) < 12 THEN PreviousDate(date[1], date[2], date[3]) ELSE date

\* the line of lines above line j that is a "night" line, or 0
NightAbove(lines, j) ==
    LET above == {k \in 1..(j - 1) : lines[k].kind = "night"} IN
    IF above = {} THEN 0 ELSE Max(above)

RECURSIVE ExposureOf(_)
ExposureOf(R) ==
    IF R = {} THEN 0
    ELSE LET r == CHOOSE x \in R : TRUE IN
         (IF Column(r, "exposure").t = "num" THEN Column(r, "exposure").v ELSE 0)
            + ExposureOf(R \ {r})

\* C20: in the summary of a project the images without date_obs are counted
\* on a "date inconnue" line of their filter, above every night and on no
\* line of a night, and the line of the totals of a filter shows the sum of
\* the exposures of all the images of that filter, dated or not.
C20_UndatedCountedInTotals ==
    \A id \in DOMAIN projects :
        LET lines == LoadProjectImages(projects, images, id)
            R == ImagesOf(images, id)
            undated == {r \in R : "date_obs" \notin DOMAIN r.meta}
        IN  ~projects[id].is_organization =>
            /\ \A r \in undated :
                \E j \in 1..Len(lines) :
                    /\ lines[j].kind = "unknown"
                    /\ lines[j].filter = Column(r, "filter")
                    /\ lines[j].count =
                         Cardinality({x \in undated :
                                        Column(x, "filter") = Column(r, "filter")})
                    /\ NightAbove(lines, j) = 0
            /\ \A j \in 1..Len(lines) :
                lines[j].kind = "session" =>
                    lines[j].count =
                        Cardinality({x \in R \ undated :
                            /\ Column(x, "filter") = lines[j].filter
                            /\ SessionDate(x) = lines[j].session_date})
            /\ \A r \in R :
                LET of_filter == {x \in R : Column(x, "filter") = Column(r, "filter")}
                    known == \E x \in of_filter : Column(x, "exposure").t = "num"
                    totals == {j \in 1..Len(lines) :
                                /\ lines[j].kind = "total"
                                /\ lines[j].filter = Column(r, "filter")}
                IN  /\ Cardinality(totals) = 1
                    /\ \A j \in totals :
                        /\ lines[j].duration.known = known
                        /\ lines[j].duration.h * 3600 + lines[j].duration.m * 60
                             + lines[j].duration.s = ExposureOf(of_filter)

\* an import has just stored, in one project, an image of filter L without
\* date_obs and with an exposure, and a dated image of filter L
C20_Witness ==
    /\ last = "imported"
    /\ \E id \in DOMAIN projects :
        /\ \E r \in ImagesOf(images, id) :
            /\ r.path = "d5/g.fits"
            /\ "date_obs" \notin DOMAIN r.meta
            /\ Column(r, "exposure") = Number(20)
            /\ Column(r, "filter") = Text(<<"L">>)
        /\ \E r \in ImagesOf(images, id) :
            /\ r.path = "d5/e.fits"
            /\ Column(r, "filter") = Text(<<"L">>)
            /\ SessionDate(r).t = "str"

----------------------------------------------------------------------------
(* C21: unknown and zero durations of the summary.                          *)

\* the rows a line of the summary of project id is about: those of its
\* filter and, on a line of a night, of its night
GroupOf(id, line) ==
    {r \in ImagesOf(images, id) :
        /\ Column(r, "filter") = line.filter
        /\ line.kind = "session" => SessionDate(r) = line.session_date}

\* the sum, in tenths of a second, of the exposures that are set in R
RECURSIVE TenthsOf(_)
TenthsOf(R) ==
    IF R = {} THEN 0
    ELSE LET r == CHOOSE x \in R : TRUE
             exposure == Column(r, "exposure")
         IN  (IF exposure.t = "num"
              THEN images[r] * (10 * exposure.v + Tenths(exposure)) ELSE 0)
             + TenthsOf(R \ {r})

\* the lines of the summary of project id that show a duration
DurationLines(id) ==
    LET lines == LoadProjectImages(projects, images, id) IN
    {lines[j] : j \in {i \in 1..Len(lines) : lines[i].kind \in {"session", "total"}}}

\* the seconds a line shows
ShownSeconds(line) ==
    line.duration.h * 3600 + line.duration.m * 60 + line.duration.s

\* C21 as stated: a group of the summary without any exposure is shown as
\* unknown, and a group with an exposure is shown as a duration equal to the
\* sum of the exposures that are set.
C21_DurationIsSum ==
    \A id \in DOMAIN projects : \A line \in DurationLines(id) :
        LET R == GroupOf(id, line) IN
        /\ line.duration.known = (\E r \in R : Column(r, "exposure").t = "num")
        /\ line.duration.known => 10 * ShownSeconds(line) = TenthsOf(R)

\* C21 amended: a group of the summary without any exposure is shown as
\* unknown, and a group with an exposure is shown as the hours, minutes and
\* seconds of the whole seconds of the sum of the exposures that are set, the
\* fraction of a second dropped; a sum of zero is shown as zero, never as
\* unknown, and an unknown total is never shown as a duration.
C21_DurationIsWholeSecondsOfSum ==
    \A id \in DOMAIN projects : \A line \in DurationLines(id) :
        LET R == GroupOf(id, line) IN
        /\ line.duration.known = (\E r \in R : Column(r, "exposure").t = "num")
        /\ line.duration.known =>
            /\ ShownSeconds(line) = TenthsOf(R) \div 10
            /\ line.duration.m < 60
            /\ line.duration.s < 60

\* a summary with an unknown group, a group of zero seconds, a group of more
\* than an hour and a group whose sum has a fraction
C21_Witness ==
    \E id \in DOMAIN projects :
        /\ \E line \in DurationLines(id) :
            line.filter = Text(<<"G">>) /\ ~line.duration.known
        /\ \E line \in DurationLines(id) :
            /\ line.filter = Text(<<"R">>)
            /\ line.duration = [known |-> TRUE, h |-> 0, m |-> 0, s |-> 0]
            /\ Cardinality(GroupOf(id, line)) = 2
        /\ \E line \in DurationLines(id) :
            /\ line.filter = Text(<<"H">>)
            /\ line.duration = [known |-> TRUE, h |-> 1, m |-> 2, s |-> 5]
        /\ \E line \in DurationLines(id) :
            /\ line.filter = Text(<<"L">>)
            /\ line.duration = [known |-> TRUE, h |-> 0, m |-> 0, s |-> 1]
            /\ TenthsOf(GroupOf(id, line)) = 12

----------------------------------------------------------------------------
(* C22: a name that is taken.                                               *)

\* another project than except bears the name
NameOfAnother(name, except) ==
    \E id \in DOMAIN projects : id # except /\ projects[id].name = name

----------------------------------------------------------------------------
(* C23, C24: ensure_columns_exist.                                          *)

\* the imports that can start in this state and pass validate_fits_directory
Imports ==
    UNION {ImportOutcomes(images, columns, metadata_config, dir, id) :
             dir \in {d \in AllDirNames : ValidateFitsDirectory(Walk(d))},
             id \in DOMAIN projects}

\* the columns an import added
AddedBy(o) == o.columns \ columns

\* the db_name whose ALTER TABLE failed during an import:
\* those that were missing and were not added
FailedAdditions(o) ==
    {c \in RequiredColumns(metadata_config) :
        Lower(c) \notin LowerSet(columns) /\ c \notin AddedBy(o)}

\* C23: after an ensure_columns_exist none of whose ALTER TABLE failed every
\* db_name of metadata_config is a column of images, letter case aside, and
\* no column is added that the table had or that the same run added, letter
\* case aside; a second run with the same metadata_config adds no column,
\* also when two db_name differ by letter case only.
C23_ColumnsAddedOnce ==
    \A o \in Imports :
        /\ FailedAdditions(o) = {} =>
            \A c \in RequiredColumns(metadata_config) :
                Lower(c) \in LowerSet(o.columns)
        /\ \A a \in AddedBy(o) :
            /\ Lower(a) \notin LowerSet(columns)
            /\ \A b \in AddedBy(o) : Lower(a) = Lower(b) => a = b
        /\ AddedColumns(o.columns, metadata_config) = {{}}

\* the mapping names gain and Gain while images has neither, and an import
\* can start
C23_Witness ==
    /\ {"gain", "Gain"} \subseteq RequiredColumns(metadata_config)
    /\ "gain" \notin LowerSet(columns)
    /\ \E o \in Imports : Cardinality(AddedBy(o)) = 1 /\ FailedAdditions(o) # {}
    /\ \E o \in Imports : AddedBy(o) = {"Gain"}

\* C24: when an ALTER TABLE of ensure_columns_exist failed, the import goes
\* on to its end: the other missing columns are added, and every readable
\* file of the walk that the project did not hold is inserted, the files
\* whose header holds the keyword of the failed column among them.
C24_FailedAdditionKeepsImport ==
    \A dir \in {d \in AllDirNames : ValidateFitsDirectory(Walk(d))} :
    \A id \in DOMAIN projects :
    \A o \in ImportOutcomes(images, columns, metadata_config, dir, id) :
        FailedAdditions(o) # {} =>
            /\ o.result = "imported"
            /\ \A c \in RequiredColumns(metadata_config) :
                ~AlterIsNoStatement(c) => Lower(c) \in LowerSet(o.columns)
            /\ \A i \in 1..Len(Walk(dir)) :
                LET file == Walk(dir)[i] IN
                IsWalked(file) /\ file.readable =>
                    \E r \in BagToSet(o.images) :
                        r.filename = file.filename /\ r.project_id = id

----------------------------------------------------------------------------
(* C25: the files an import considers.                                      *)

\* the name ends in .fits or .fit, letter case aside
IsFitsName(file) == Lower(file.ext) \in {"fits", "fit"}

\* C25: an import considers every file whose name ends in .fits or .fit,
\* letter case aside: the files walked are the files validate_fits_directory
\* counts, and after the import of an accepted directory the project holds a
\* record for every such file.
C25_WalkedIsValidated ==
    \A dir \in DirNames : \A id \in DOMAIN projects :
    \A o \in ImportOutcomes(images, columns, metadata_config, dir, id) :
        o.result = "imported" =>
            \A i \in 1..Len(Walk(dir)) :
                LET file == Walk(dir)[i] IN
                /\ IsWalked(file) <=> IsFitsName(file)
                /\ IsFitsName(file) =>
                    \E r \in BagToSet(o.images) :
                        r.filename = file.filename /\ r.project_id = id

----------------------------------------------------------------------------
(* C26: several entries of one db_name.                                     *)

\* the entries of config that name db_name and whose keyword the header has
PresentEntries(config, header, db_name) ==
    {i \in 1..Len(config) :
        config[i][2] = db_name /\ HeaderGet(header, config[i][1]).t # "null"}

\* the files of dirs that fits.open reads
ReadableFiles(dirs) ==
    UNION {{Walk(dir)[i] : i \in {j \in 1..Len(Walk(dir)) : Walk(dir)[j].readable}} :
             dir \in dirs}

\* what extract_fits_metadata gives for db_name is what the last entry of
\* db_name whose keyword the header has gives alone, and nothing when the
\* header has none of the keywords of db_name
LastEntryWins(config, file, db_name) ==
    LET metadata == ExtractFitsMetadata(config, file)
        present == PresentEntries(config, file.header, db_name)
    IN  IF present = {} THEN db_name \notin DOMAIN metadata
        ELSE LET alone == ExtractFitsMetadata(<<config[Max(present)]>>, file) IN
             IF db_name \in DOMAIN alone
             THEN db_name \in DOMAIN metadata /\ metadata[db_name] = alone[db_name]
             ELSE db_name \notin DOMAIN metadata

\* C26: when several entries of metadata_config name one db_name, the value
\* extracted for it is that of the last of them in the order of the table,
\* the other db_name get the value of their own last entry, and a db_name
\* none of whose keywords is in the header is left unset.
C26_LastEntryWins ==
    (\E i, j \in 1..Len(metadata_config) :
        i # j /\ metadata_config[i][2] = metadata_config[j][2])
    => \A file \in ReadableFiles({"d1", "d6"}) :
       \A db_name \in RequiredColumns(metadata_config) :
            LastEntryWins(metadata_config, file, db_name)

\* the same for the files of d1 alone
C26_LastEntryWinsDatesApart ==
    (\E i, j \in 1..Len(metadata_config) :
        i # j /\ metadata_config[i][2] = metadata_config[j][2])
    => \A file \in ReadableFiles({"d1"}) :
       \A db_name \in RequiredColumns(metadata_config) :
            LastEntryWins(metadata_config, file, db_name)

----------------------------------------------------------------------------
(* C27: the recursive queries end.                                          *)

\* the rows the recursive step of project_tree produces in round k, from
\* the rows of seed: the query ends when a round produces no row
RECURSIVE Round(_, _, _)
Round(P, seed, k) == IF k = 0 THEN seed ELSE Round(P, ChildrenOf(P, seed), k - 1)

\* Each row of a round is the child of a row of the round before; when the
\* rounds go on after as many rounds as there are projects, a project came
\* twice on one path and the query never ends.
QueryEnds(P, seed) == Round(P, seed, Cardinality(DOMAIN P)) = {}

\* C27: the recursive queries of is_child_of and of the two DELETE of
\* delete_project, seeded with a project, and that of the has_children test,
\* seeded with its children, end for every project of the store.
C27_RecursiveQueriesEnd ==
    \A id \in Ids :
        /\ QueryEnds(projects, {id} \cap DOMAIN projects)
        /\ QueryEnds(projects, ChildrenOf(projects, {id}))

\* is_child_of found the target under the source in a store where a project
\* has a grandchild
C27_Witness ==
    /\ last = "CyclicMove"
    /\ \E a, b, c \in DOMAIN projects :
        projects[b].parent_id = a /\ projects[c].parent_id = b

----------------------------------------------------------------------------
(* C28: the editor works on its list.                                       *)

\* C28: while the MetadataConfigWindow is open, adding, removing and
\* renaming entries and reading keywords change its list only and leave
\* metadata_config as it was; "Annuler" closes the window and leaves
\* metadata_config as it was; after "Sauvegarder" metadata_config is the
\* list, entry for entry and in its order.
C28_EditorWritesOnSave ==
    [][config_window.open =>
        /\ config_window'.open => metadata_config' = metadata_config
        /\ Reject => metadata_config' = metadata_config
        /\ SaveConfig =>
            /\ Len(metadata_config') = Len(config_window.used_keywords_list)
            /\ \A i \in 1..Len(metadata_config') :
                metadata_config'[i] = config_window.used_keywords_list[i]
        /\ ~config_window'.open => Reject \/ SaveConfig]_vars

\* the window is open on a list that an addition and a renaming made
\* differ from a metadata_config that was saved before
C28_Witness ==
    /\ config_window.open
    /\ metadata_config # DefaultConfig
    /\ Len(config_window.used_keywords_list) > Len(metadata_config)
    /\ \E i \in 1..Len(metadata_config) :
        config_window.used_keywords_list[i] # metadata_config[i]

----------------------------------------------------------------------------
(* C29, C30: the pending move.                                              *)

\* a project of the store gets another parent in the step
Reparented(id) ==
    /\ id \in DOMAIN projects
    /\ id \in DOMAIN projects'
    /\ projects'[id].parent_id # projects[id].parent_id

C30_PendingSourceKept ==
    source_project_id # None => source_project_id \in DOMAIN projects

====
